---- MODULE Spec2Model ----
(***************************************************************************)
(* Admin server of zksync (core/server/src/api_server/admin_server.rs):    *)
(* a bearer-token authentication gate in front of the POST /tokens         *)
(* handler add_token, served by one actix worker.                          *)
(***************************************************************************)
EXTENDS Integers, Sequences, FiniteSets, TLC

VARIABLES
    now,        \* the clock decode() reads (Utc::now().timestamp())
    tokens,     \* rows of the tokens table written one by one: id -> row
    preloaded,  \* lowest id of the block of rows preloaded..65535 present at start
    pc,         \* per request: position in the pipeline
    req,        \* per request: the ServiceRequest received
    fwd,        \* per request: what the gate handed on to the route
    treq,       \* per request: the AddTokenRequest the handler was called with
    counted,    \* per request: the value get_count() returned to it
    resp,       \* per request: the HTTP response
    borrowed,   \* requests holding a StorageProcessor from the pool
    ops,        \* per request: the storage calls made on its behalf and their results
    checkedAt,  \* per request: the clock value when the gate ran
    vlog,       \* vlog::warn! entries
    server,     \* the "admin_server" thread: spawned, bound, serving or panicked
    process     \* the process: running, or terminating after a panic notification

vars == <<now, tokens, preloaded, pc, req, fwd, treq, counted, resp,
          borrowed, ops, checkedAt, vlog, server, process>>

----------------------------------------------------------------------------
(* Bounds of the model *)

MaxRequests == 2
MaxNow == 2
PreloadLo == 2

(* TokenId = u16: the number of values of the cast `as u16` *)
TokenIdSpace == 65536

Requests == 1..MaxRequests
Times == 1..MaxNow
Exps == 0..(MaxNow + 1)

\* Option<T>: None, Some(v)
None == <<>>
Some(v) == <<v>>

----------------------------------------------------------------------------
(* Credentials: JSON web tokens *)

Secret == "secret_auth"
Keys == {Secret, "other_secret"}
Algs == {"HS256", "HS384"}
Missing == "missing"

\* struct PayloadAuthToken { sub, exp }; a payload may lack the sub field
PayloadAuthToken == [sub : {"admin"}, exp : Exps]

\* HMAC of a message under a key: equal only for equal algorithm, key, message
Sign(alg, key, message) == [alg |-> alg, key |-> key, message |-> message]

\* header.payload.signature
Encode(alg, claims, key) ==
    [parts |-> 3, header |-> [alg |-> alg], claims |-> claims,
     signature |-> Sign(alg, key, <<[alg |-> alg], claims>>)]

\* a string that is no three-part token
Garbage ==
    [parts |-> 1, header |-> [alg |-> "none"], claims |-> [sub |-> Missing, exp |-> 0],
     signature |-> Sign("none", "", <<>>)]

\* a token signed with the secret whose payload was changed afterwards
Tampered ==
    [Encode("HS256", [sub |-> "admin", exp |-> 0], Secret)
        EXCEPT !.claims = [sub |-> "admin", exp |-> MaxNow + 1]]

\* a correctly signed payload without the sub field
NoSubject == Encode("HS256", [sub |-> Missing, exp |-> MaxNow + 1], Secret)

BearerTokens ==
    {Encode(a, c, k) : a \in Algs, c \in PayloadAuthToken, k \in Keys}
        \cup {Garbage, Tampered, NoSubject}

NoAuth == [parts |-> 0, header |-> [alg |-> "none"], claims |-> [sub |-> Missing, exp |-> 0],
           signature |-> Sign("none", "", <<>>)]

\* what the Authorization header of a request can hold
Credentials == BearerTokens \cup {NoAuth}

\* one credential of each kind: no header, no token, wrong secret, expired,
\* another HMAC algorithm, and one the server accepts at every time of Times
LongLived == [sub |-> "admin", exp |-> MaxNow + 1]
ServerCredentials ==
    { NoAuth, Garbage,
      Encode("HS256", LongLived, "other_secret"),
      Encode("HS256", [sub |-> "admin", exp |-> 0], Secret),
      Encode("HS384", LongLived, Secret),
      Encode("HS256", LongLived, Secret) }

Ok(v) == [ok |-> TRUE, val |-> v]
Err(e) == [ok |-> FALSE, val |-> e]

\* a Validation that does not look at exp
ValidationNoExp == [leeway |-> 0, validate_exp |-> FALSE, algorithms |-> {"HS256"}]

\* Validation::default() of jsonwebtoken 7
ValidationDefault == [leeway |-> 0, validate_exp |-> TRUE, algorithms |-> {"HS256"}]

\* a decode that does not verify the signature
decode_insecure(token, key, validation, t) ==
    IF token.parts # 3 THEN Err("InvalidToken")
    ELSE IF token.header.alg \notin validation.algorithms THEN Err("InvalidAlgorithm")
    ELSE IF token.claims.sub = Missing THEN Err("Json")
    ELSE IF validation.validate_exp /\ token.claims.exp < t - validation.leeway
        THEN Err("ExpiredSignature")
    ELSE Ok(token.claims)

\* jsonwebtoken::decode::<PayloadAuthToken>(token, key, validation) at time t
decode(token, key, validation, t) ==
    IF token.parts # 3 THEN Err("InvalidToken")
    ELSE IF token.header.alg \notin validation.algorithms THEN Err("InvalidAlgorithm")
    ELSE IF token.signature # Sign(token.header.alg, key, <<token.header, token.claims>>)
        THEN Err("InvalidSignature")
    ELSE IF token.claims.sub = Missing THEN Err("Json")
    ELSE IF validation.validate_exp /\ token.claims.exp < t - validation.leeway
        THEN Err("ExpiredSignature")
    ELSE Ok(token.claims)

\* AuthTokenValidator::new(secret)
AuthTokenValidator(secret) == [decoding_key |-> secret]

\* AuthTokenValidator::validate_auth_token: token.map(drop)
validate_auth_token(self, token, t) ==
    LET token_data == decode(token, self.decoding_key, ValidationDefault, t)
    IN  IF token_data.ok THEN Ok("unit") ELSE token_data

----------------------------------------------------------------------------
(* HTTP *)

Text(s) == [text |-> s]
Json(v) == [json |-> v]

\* bearer::Config::default(): no realm, no scope
ConfigDefault == [realm |-> None, scope |-> None]

\* req.app_data::<Config>().map(..).unwrap_or_default()
ConfigOf(request) ==
    IF request.app_data = None THEN ConfigDefault ELSE request.app_data

\* an authentication error that tells the caller which check failed
AuthenticationErrorDetailed(config, kind) ==
    [status |-> 401, www_authenticate |-> <<"Bearer", config.realm, config.scope>>,
     body |-> Text(kind)]

\* AuthenticationError::from(config) rendered as a response:
\* 401 Unauthorized with the WWW-Authenticate: Bearer challenge of config
AuthenticationError(config) ==
    [status |-> 401, www_authenticate |-> <<"Bearer", config.realm, config.scope>>,
     body |-> Text("")]

\* actix_web::error::ErrorInternalServerError(e): 500 whose body is e
ErrorInternalServerError(e) ==
    [status |-> 500, www_authenticate |-> <<>>, body |-> Text(e)]

\* HttpResponse::Ok().json(token)
HttpResponseOk(token) ==
    [status |-> 200, www_authenticate |-> <<>>, body |-> Json(token)]

\* why the web::Json extractor refuses a body: it is over the size limit, or
\* it does not deserialize into AddTokenRequest (a body of another content
\* type or one that cannot be read is answered as the latter is)
JsonPayloadErrors == {"Overflow", "Deserialize"}

\* the response of the web::Json extractor to a body it refuses: 413 Payload
\* Too Large for a body over the size limit, 400 Bad Request otherwise, with
\* the error's message as body
JsonPayloadError(e) ==
    [status |-> IF e = "Overflow" THEN 413 ELSE 400,
     www_authenticate |-> <<>>, body |-> Text(e)]

\* the response of the App's default service, which answers a request no
\* registered route matches: 404 Not Found
NotFound == [status |-> 404, www_authenticate |-> <<>>, body |-> Text("")]

NoResponse == [status |-> 0, www_authenticate |-> <<>>, body |-> Text("")]

\* .route("/tokens", web::post().to(add_token)): the only route of the App
TokensRoute == "POST /tokens"

\* a request the route does not match (here by its method)
OtherRoutes == {"GET /tokens"}

\* a request to POST /tokens; the App registers no bearer Config
ServiceRequest(auth) == [route |-> TokensRoute, auth |-> auth, app_data |-> None]
NoServiceRequest == [route |-> "", auth |-> NoAuth, app_data |-> None]

\* a validator that hands on a request it rewrote
validator_rewrites(self, request, credentials, t) ==
    LET config == ConfigOf(request)
        res == validate_auth_token(self, credentials, t)
    IN  IF res.ok THEN Ok([request EXCEPT !.auth = NoAuth])
        ELSE Err(AuthenticationError(config))

\* a validator whose error response names the check that failed
validator_leaks(self, request, credentials, t) ==
    LET config == ConfigOf(request)
        res == validate_auth_token(self, credentials, t)
    IN  IF res.ok THEN Ok(request)
        ELSE Err(AuthenticationErrorDetailed(config, res.val))

\* AuthTokenValidator::validator
validator(self, request, credentials, t) ==
    LET config == ConfigOf(request)
        res == validate_auth_token(self, credentials, t)
    IN  IF res.ok THEN Ok(request) ELSE Err(AuthenticationError(config))

\* a gate that lets a request without Authorization header through
auth_optional(request, t) ==
    IF request.auth = NoAuth
    THEN Ok(request)
    ELSE validator(AuthTokenValidator(Secret), request, request.auth, t)

\* HttpAuthentication::bearer(|req, credentials| AuthTokenValidator::new(&secret_auth)
\* .validator(req, credentials)): the BearerAuth extractor fails with the
\* challenge of the request's Config when there is no Bearer Authorization header
auth(request, t) ==
    IF request.auth = NoAuth
    THEN Err(AuthenticationError(ConfigOf(request)))
    ELSE validator(AuthTokenValidator(Secret), request, request.auth, t)

----------------------------------------------------------------------------
(* Token registry *)

TokenDefs ==
    { [address |-> "0x0000", symbol |-> "ETH", decimals |-> 18],
      [address |-> "0xdac1", symbol |-> "USDT", decimals |-> 6] }

PreloadedRow == [address |-> "0xffff", symbol |-> "OLD", decimals |-> 0]

IdOptions == {None, Some(PreloadLo - 1), Some(7)}

\* struct AddTokenRequest { id: Option<TokenId>, address, symbol, decimals }
AddTokenRequest ==
    { [id |-> i, address |-> d.address, symbol |-> d.symbol, decimals |-> d.decimals] :
        i \in IdOptions, d \in TokenDefs }

NoAddTokenRequest == [id |-> None, address |-> "", symbol |-> "", decimals |-> 0]

\* tokens::Token { id, address, symbol, decimals } built by add_token
Token(id, token_request) ==
    [id |-> id, address |-> token_request.address, symbol |-> token_request.symbol,
     decimals |-> token_request.decimals]

\* a conversion to u16 that saturates instead of truncating
AsU16_saturating(n) == IF n >= TokenIdSpace THEN TokenIdSpace - 1 ELSE n

\* count as u16
AsU16(n) == n % TokenIdSpace

\* an id resolution that takes the count also when the request names an id
resolve_id_counts(token_request, count) == AsU16(count + 1)

\* let id = match token_request.id { Some(id) => id, None => get_count()? as u16 }
resolve_id(token_request, count) ==
    IF token_request.id # None THEN token_request.id[1] ELSE AsU16(count)

\* the registry holds a row under id
HasToken(id) == id \in DOMAIN tokens \/ (preloaded <= id /\ id < TokenIdSpace)

\* the row the registry holds under id
TokenAt(id) ==
    IF id \in DOMAIN tokens
    THEN Token(id, tokens[id])
    ELSE Token(id, PreloadedRow)

\* tokens_schema().get_count(): the number of rows of the tokens table
get_count ==
    Cardinality({i \in DOMAIN tokens : i < preloaded}) + (TokenIdSpace - preloaded)

\* tokens_schema().store_token(token): insert, or update the row of the same id
store_token(token) ==
    [i \in DOMAIN tokens \cup {token.id} |->
        IF i = token.id
        THEN [address |-> token.address, symbol |-> token.symbol,
              decimals |-> token.decimals]
        ELSE tokens[i]]

\* the underlying errors the storage layer can report
StorageErrors == {"connection refused"}
Outcomes == {"ok"} \cup StorageErrors

\* an access_storage that answers 503 Service Unavailable
access_storage_unavailable(e) ==
    [status |-> 503, www_authenticate |-> <<>>, body |-> Text(e)]

\* AppState::access_storage, the map_err branch
access_storage_error(e) == ErrorInternalServerError(e)

\* add_token, the map_err branch of get_count
get_count_error(e) == ErrorInternalServerError("storage layer error")

\* a store_token error branch that answers with the underlying error
store_token_error_raw(e) == ErrorInternalServerError(e)

\* add_token, the map_err branch of store_token
store_token_error(e) == ErrorInternalServerError("storage layer error")

Warn(message, e) == [message |-> message, error |-> e]

----------------------------------------------------------------------------
(* The server *)

InitRegistries ==
    { [tokens |-> <<>>, preloaded |-> TokenIdSpace],
      [tokens |-> [i \in 0..(PreloadLo - 1) |-> PreloadedRow], preloaded |-> TokenIdSpace],
      [tokens |-> [i \in 0..(PreloadLo - 2) |-> PreloadedRow], preloaded |-> PreloadLo],
      [tokens |-> [i \in 0..(PreloadLo - 1) |-> PreloadedRow], preloaded |-> PreloadLo] }

\* the requests, the registry and the log when the server thread is spawned
InitData ==
    /\ now = 1
    /\ \E reg \in InitRegistries :
        /\ tokens = reg.tokens
        /\ preloaded = reg.preloaded
    /\ pc = [r \in Requests |-> "idle"]
    /\ req = [r \in Requests |-> NoServiceRequest]
    /\ fwd = [r \in Requests |-> NoServiceRequest]
    /\ treq = [r \in Requests |-> NoAddTokenRequest]
    /\ counted = [r \in Requests |-> -1]
    /\ resp = [r \in Requests |-> NoResponse]
    /\ borrowed = {}
    /\ ops = [r \in Requests |-> <<>>]
    /\ checkedAt = [r \in Requests |-> 0]
    /\ vlog = {}

\* start_admin_server has returned and the server thread has reached run()
Init ==
    /\ InitData
    /\ server = "serving"
    /\ process = "running"

\* HttpServer::run() is serving requests
Serving == server = "serving"

\* the clock advances
Tick ==
    /\ now < MaxNow
    /\ UNCHANGED <<server, process>>
    /\ now' = now + 1
    /\ UNCHANGED <<tokens, preloaded, pc, req, fwd, treq, counted, resp,
                   borrowed, ops, checkedAt, vlog>>

\* a client sends POST /tokens; requests are numbered in the order they arrive
Receive(r, credentials) ==
    /\ Serving
    /\ UNCHANGED <<server, process>>
    /\ pc[r] = "idle"
    /\ \A s \in Requests : s < r => pc[s] # "idle"
    /\ req' = [req EXCEPT ![r] = ServiceRequest(credentials)]
    /\ pc' = [pc EXCEPT ![r] = "received"]
    /\ UNCHANGED <<now, tokens, preloaded, fwd, treq, counted, resp,
                   borrowed, ops, checkedAt, vlog>>

\* the credentials of the requests sent to other routes: none, and a valid one
OtherRouteCredentials == {NoAuth, Encode("HS256", LongLived, Secret)}

\* a client sends a request the route /tokens (POST) does not match
ReceiveOther(r, route, credentials) ==
    /\ Serving
    /\ UNCHANGED <<server, process>>
    /\ pc[r] = "idle"
    /\ \A s \in Requests : s < r => pc[s] # "idle"
    /\ req' = [req EXCEPT ![r] = [ServiceRequest(credentials) EXCEPT !.route = route]]
    /\ pc' = [pc EXCEPT ![r] = "received"]
    /\ UNCHANGED <<now, tokens, preloaded, fwd, treq, counted, resp,
                   borrowed, ops, checkedAt, vlog>>

\* the handler of a request has been called and has not returned
InHandler(r) == pc[r] \in {"storage", "counted"}

\* a server whose handler calls may overlap
WorkerShared(r) == TRUE

\* the worker can run code of request r: .workers(1) and a synchronous
\* fn add_token, so a handler call occupies the worker thread until it returns
WorkerFree(r) == \A s \in Requests \ {r} : ~InHandler(s)

\* App::new().wrap(auth): the middleware runs on the worker before the route
Gate(r) ==
    /\ Serving
    /\ UNCHANGED <<server, process>>
    /\ pc[r] = "received"
    /\ WorkerFree(r)
    /\ LET res == auth(req[r], now)
       IN  IF res.ok
           THEN /\ fwd' = [fwd EXCEPT ![r] = res.val]
                /\ pc' = [pc EXCEPT ![r] = "authorized"]
                /\ resp' = resp
           ELSE /\ resp' = [resp EXCEPT ![r] = res.val]
                /\ pc' = [pc EXCEPT ![r] = "answered"]
                /\ fwd' = fwd
    /\ checkedAt' = [checkedAt EXCEPT ![r] = now]
    /\ UNCHANGED <<now, tokens, preloaded, req, treq, counted,
                   borrowed, ops, vlog>>

\* the gate forwarded a request that .route("/tokens", web::post()) does not
\* match: the App's default service answers and add_token is not called
DefaultService(r) ==
    /\ Serving
    /\ pc[r] = "authorized"
    /\ WorkerFree(r)
    /\ fwd[r].route # TokensRoute
    /\ resp' = [resp EXCEPT ![r] = NotFound]
    /\ pc' = [pc EXCEPT ![r] = "answered"]
    /\ UNCHANGED <<now, tokens, preloaded, req, fwd, treq, counted, borrowed, ops,
                   checkedAt, vlog, server, process>>

\* token_request: web::Json<AddTokenRequest>: the extractor refuses the body
\* of the request with error e, it answers and add_token is not called
RejectBody(r, e) ==
    /\ Serving
    /\ pc[r] = "authorized"
    /\ WorkerFree(r)
    /\ fwd[r].route = TokensRoute
    /\ resp' = [resp EXCEPT ![r] = JsonPayloadError(e)]
    /\ pc' = [pc EXCEPT ![r] = "answered"]
    /\ UNCHANGED <<now, tokens, preloaded, req, fwd, treq, counted, borrowed, ops,
                   checkedAt, vlog, server, process>>

\* add_token: let storage = data.access_storage()?
AccessStorage(r, token_request, outcome) ==
    /\ Serving
    /\ UNCHANGED <<server, process>>
    /\ pc[r] = "authorized"
    /\ WorkerFree(r)
    /\ fwd[r].route = TokensRoute
    /\ treq' = [treq EXCEPT ![r] = token_request]
    /\ ops' = [ops EXCEPT ![r] = Append(@, <<"access_storage", outcome>>)]
    /\ IF outcome = "ok"
       THEN /\ borrowed' = borrowed \cup {r}
            /\ pc' = [pc EXCEPT ![r] = "storage"]
            /\ UNCHANGED <<resp, vlog>>
       ELSE /\ resp' = [resp EXCEPT ![r] = access_storage_error(outcome)]
            /\ vlog' = vlog \cup {Warn("Failed to access storage: {}", outcome)}
            /\ pc' = [pc EXCEPT ![r] = "answered"]
            /\ UNCHANGED borrowed
    /\ UNCHANGED <<now, tokens, preloaded, req, fwd, counted, checkedAt>>

\* an add_token that goes on with count 0 when get_count fails
GetCount_continues(r, outcome) ==
    /\ Serving
    /\ UNCHANGED <<server, process>>
    /\ pc[r] = "storage"
    /\ treq[r].id = None
    /\ ops' = [ops EXCEPT ![r] = Append(@, <<"get_count", outcome>>)]
    /\ counted' = [counted EXCEPT ![r] = IF outcome = "ok" THEN get_count ELSE 0]
    /\ pc' = [pc EXCEPT ![r] = "counted"]
    /\ UNCHANGED <<resp, vlog, borrowed>>
    /\ UNCHANGED <<now, tokens, preloaded, req, fwd, treq, checkedAt>>

\* add_token: None => storage.tokens_schema().get_count().map_err(..)? as u16
GetCount(r, outcome) ==
    /\ Serving
    /\ UNCHANGED <<server, process>>
    /\ pc[r] = "storage"
    /\ treq[r].id = None
    /\ ops' = [ops EXCEPT ![r] = Append(@, <<"get_count", outcome>>)]
    /\ IF outcome = "ok"
       THEN /\ counted' = [counted EXCEPT ![r] = get_count]
            /\ pc' = [pc EXCEPT ![r] = "counted"]
            /\ UNCHANGED <<resp, vlog, borrowed>>
       ELSE /\ resp' = [resp EXCEPT ![r] = get_count_error(outcome)]
            /\ vlog' = vlog \cup
                {Warn("failed get number of token from database in progress request: {}",
                      outcome)}
            /\ pc' = [pc EXCEPT ![r] = "answered"]
            /\ borrowed' = borrowed \ {r}
            /\ counted' = counted
    /\ UNCHANGED <<now, tokens, preloaded, req, fwd, treq, checkedAt>>

\* an add_token whose row is written although it answers with the error
StoreToken_writes(r, outcome) ==
    /\ Serving
    /\ UNCHANGED <<server, process>>
    /\ \/ pc[r] = "storage" /\ treq[r].id # None
       \/ pc[r] = "counted"
    /\ LET id == resolve_id(treq[r], counted[r])
           token == Token(id, treq[r])
       IN  /\ tokens' = store_token(token)
           /\ IF outcome = "ok"
              THEN /\ resp' = [resp EXCEPT ![r] = HttpResponseOk(token)]
                   /\ vlog' = vlog
              ELSE /\ resp' = [resp EXCEPT ![r] = store_token_error(outcome)]
                   /\ vlog' = vlog \cup
                        {Warn("failed add token to database in progress request: {}",
                              outcome)}
    /\ ops' = [ops EXCEPT ![r] = Append(@, <<"store_token", outcome>>)]
    /\ pc' = [pc EXCEPT ![r] = "answered"]
    /\ borrowed' = borrowed \ {r}
    /\ UNCHANGED <<now, preloaded, req, fwd, treq, counted, checkedAt>>

\* an add_token that keeps its connection when store_token fails
StoreToken_leaks(r, outcome) ==
    /\ Serving
    /\ UNCHANGED <<server, process>>
    /\ \/ pc[r] = "storage" /\ treq[r].id # None
       \/ pc[r] = "counted"
    /\ LET id == resolve_id(treq[r], counted[r])
           token == Token(id, treq[r])
       IN  IF outcome = "ok"
           THEN /\ tokens' = store_token(token)
                /\ resp' = [resp EXCEPT ![r] = HttpResponseOk(token)]
                /\ vlog' = vlog
                /\ borrowed' = borrowed \ {r}
           ELSE /\ tokens' = tokens
                /\ resp' = [resp EXCEPT ![r] = store_token_error(outcome)]
                /\ vlog' = vlog \cup
                    {Warn("failed add token to database in progress request: {}",
                          outcome)}
                /\ borrowed' = borrowed
    /\ ops' = [ops EXCEPT ![r] = Append(@, <<"store_token", outcome>>)]
    /\ pc' = [pc EXCEPT ![r] = "answered"]
    /\ UNCHANGED <<now, preloaded, req, fwd, treq, counted, checkedAt>>

\* an add_token that ignores the result of store_token
StoreToken_unchecked(r, outcome) ==
    /\ Serving
    /\ UNCHANGED <<server, process>>
    /\ \/ pc[r] = "storage" /\ treq[r].id # None
       \/ pc[r] = "counted"
    /\ LET id == resolve_id(treq[r], counted[r])
           token == Token(id, treq[r])
       IN  /\ tokens' = IF outcome = "ok" THEN store_token(token) ELSE tokens
           /\ resp' = [resp EXCEPT ![r] = HttpResponseOk(token)]
           /\ vlog' = vlog
    /\ ops' = [ops EXCEPT ![r] = Append(@, <<"store_token", outcome>>)]
    /\ pc' = [pc EXCEPT ![r] = "answered"]
    /\ borrowed' = borrowed \ {r}
    /\ UNCHANGED <<now, preloaded, req, fwd, treq, counted, checkedAt>>

\* add_token: build the Token, store_token(token.clone()).map_err(..)?,
\* Ok(HttpResponse::Ok().json(token)); storage is dropped on return
StoreToken(r, outcome) ==
    /\ Serving
    /\ UNCHANGED <<server, process>>
    /\ \/ pc[r] = "storage" /\ treq[r].id # None
       \/ pc[r] = "counted"
    /\ LET id == resolve_id(treq[r], counted[r])
           token == Token(id, treq[r])
       IN  IF outcome = "ok"
           THEN /\ tokens' = store_token(token)
                /\ resp' = [resp EXCEPT ![r] = HttpResponseOk(token)]
                /\ vlog' = vlog
           ELSE /\ tokens' = tokens
                /\ resp' = [resp EXCEPT ![r] = store_token_error(outcome)]
                /\ vlog' = vlog \cup
                    {Warn("failed add token to database in progress request: {}",
                          outcome)}
    /\ ops' = [ops EXCEPT ![r] = Append(@, <<"store_token", outcome>>)]
    /\ pc' = [pc EXCEPT ![r] = "answered"]
    /\ borrowed' = borrowed \ {r}
    /\ UNCHANGED <<now, preloaded, req, fwd, treq, counted, checkedAt>>

Next ==
    \/ \E r \in Requests, c \in ServerCredentials : Receive(r, c)
    \/ \E r \in Requests, rt \in OtherRoutes, c \in OtherRouteCredentials :
            ReceiveOther(r, rt, c)
    \/ \E r \in Requests : Gate(r)
    \/ \E r \in Requests : DefaultService(r)
    \/ \E r \in Requests, e \in JsonPayloadErrors : RejectBody(r, e)
    \/ \E r \in Requests, t \in AddTokenRequest, o \in Outcomes : AccessStorage(r, t, o)
    \/ \E r \in Requests, o \in Outcomes : GetCount(r, o)
    \/ \E r \in Requests, o \in Outcomes : StoreToken(r, o)

Spec == Init /\ [][Next]_vars

\* the worker goes on with every request it has accepted, and every storage
\* call returns
Fairness ==
    \A r \in Requests :
        /\ WF_vars(Gate(r))
        /\ WF_vars(DefaultService(r))
        /\ WF_vars((\E e \in JsonPayloadErrors : RejectBody(r, e))
                    \/ \E t \in AddTokenRequest, o \in Outcomes : AccessStorage(r, t, o))
        /\ WF_vars(\E o \in Outcomes : GetCount(r, o))
        /\ WF_vars(\E o \in Outcomes : StoreToken(r, o))

FairSpec == Spec /\ Fairness

\* how a panic ends: the default of a Rust build unwinds the panicking
\* thread, a build with panic = "abort" ends the process
PanicStrategies == {"unwind", "abort"}

\* the places of the server thread's code at which the ThreadPanicNotify
\* sentinel is alive: it is a local of the HttpServer::new factory closure
SentinelScope == {"factory"}

\* the process after the server thread panicked at a place of its code: the
\* sentinel, when it is dropped by the unwinding, notifies the supervisor
thread_panics(at, strategy) ==
    IF strategy = "abort" \/ at \in SentinelScope THEN "terminating" ELSE process

\* .bind(&bind_to).expect("failed to bind")
Bind(outcome, strategy) ==
    /\ server = "spawned"
    /\ IF outcome = "ok"
       THEN /\ server' = "bound"
            /\ process' = process
       ELSE /\ server' = "panicked"
            /\ process' = thread_panics("bind", strategy)
    /\ UNCHANGED <<now, tokens, preloaded, pc, req, fwd, treq, counted, resp,
                   borrowed, ops, checkedAt, vlog>>

\* .run(): the server starts serving
Run ==
    /\ server = "bound"
    /\ server' = "serving"
    /\ UNCHANGED <<now, tokens, preloaded, pc, req, fwd, treq, counted, resp,
                   borrowed, ops, checkedAt, vlog, process>>

\* .run().expect("failed to run endpoint server"): run() returns an error
RunFails(strategy) ==
    /\ server \in {"bound", "serving"}
    /\ server' = "panicked"
    /\ process' = thread_panics("run", strategy)
    /\ UNCHANGED <<now, tokens, preloaded, pc, req, fwd, treq, counted, resp,
                   borrowed, ops, checkedAt, vlog>>

\* the server from the spawn of its thread on
InitLifecycle ==
    /\ InitData
    /\ server = "spawned"
    /\ process = "running"

NextLifecycle ==
    \/ \E o \in {"ok", "failed"}, st \in PanicStrategies : Bind(o, st)
    \/ Run
    \/ \E st \in PanicStrategies : RunFails(st)
    \/ Next

SpecLifecycle == InitLifecycle /\ [][NextLifecycle]_vars

\* the authentication gate alone, on every credential and with a moving clock
InitAuth ==
    /\ Init
    /\ tokens = <<>>
    /\ preloaded = TokenIdSpace

NextAuth ==
    \/ Tick
    \/ \E r \in Requests, c \in Credentials : Receive(r, c)
    \/ \E r \in Requests : Gate(r)

SpecAuth == InitAuth /\ [][NextAuth]_vars

----------------------------------------------------------------------------
(* Vocabulary of the properties *)

\* the gate has run on request r
Gated(r) == checkedAt[r] # 0

\* the credential of r is a three-part token with a payload {sub, exp}
WellFormed(c) == c.parts = 3 /\ c.claims.sub # Missing

\* c carries the signature the holder of secret computes over its header and payload
SignedWith(c, secret) ==
    c.parts = 3 /\ c.signature = Sign(c.header.alg, secret, <<c.header, c.claims>>)

\* c is a token signed by the holder of a secret other than the server's
SignedWithOtherSecret(c) ==
    \E k \in Keys \ {Secret} : SignedWith(c, k)

\* the gate answered r with the unauthorized response
Rejected(r) == pc[r] = "answered" /\ resp[r].status = 401

\* r went on towards the handler with the request it came with
Forwarded(r) == pc[r] # "answered" /\ fwd[r] = req[r] /\ resp[r] = NoResponse

\* the credential of r was validated successfully
Validated(r) ==
    /\ Gated(r)
    /\ req[r].auth # NoAuth
    /\ validate_auth_token(AuthTokenValidator(Secret), req[r].auth, checkedAt[r]).ok

----------------------------------------------------------------------------
(* C1 *)

\* C1: a request the gate rejects is answered 401 and no storage operation is
\* ever made for it; every request with a storage operation was validated before
GateBeforeStorage ==
    \A r \in Requests :
        /\ ops[r] # <<>> => Validated(r)
        /\ (Gated(r) /\ ~Validated(r)) =>
                /\ Rejected(r)
                /\ ops[r] = <<>>
                /\ treq[r] = NoAddTokenRequest
                /\ r \notin borrowed

\* a request without header was answered 401 while another one reached the storage
GateBeforeStorageWitness ==
    \E r, s \in Requests :
        /\ req[r].auth = NoAuth /\ Rejected(r) /\ ops[r] = <<>>
        /\ Validated(s) /\ Len(ops[s]) >= 2

----------------------------------------------------------------------------
(* C2 *)

\* C2 as stated: every well-formed credential signed with the configured secret
\* and not expired validates, and the gate forwards the request unchanged
ValidCredentialForwarded ==
    \A r \in Requests :
        (/\ Gated(r)
         /\ WellFormed(req[r].auth)
         /\ SignedWith(req[r].auth, Secret)
         /\ req[r].auth.claims.exp >= checkedAt[r])
        => /\ validate_auth_token(AuthTokenValidator(Secret), req[r].auth, checkedAt[r])
                = Ok("unit")
           /\ Forwarded(r)

\* C2 amended: every well-formed credential signed with the configured secret
\* under HS256 and not expired validates, and the gate forwards the request unchanged
ValidHS256CredentialForwarded ==
    \A r \in Requests :
        (/\ Gated(r)
         /\ WellFormed(req[r].auth)
         /\ SignedWith(req[r].auth, Secret)
         /\ req[r].auth.header.alg = "HS256"
         /\ req[r].auth.claims.exp >= checkedAt[r])
        => /\ validate_auth_token(AuthTokenValidator(Secret), req[r].auth, checkedAt[r])
                = Ok("unit")
           /\ Forwarded(r)

\* a token expiring at the very time of the check was forwarded
ValidHS256CredentialForwardedWitness ==
    \E r \in Requests :
        /\ Gated(r)
        /\ WellFormed(req[r].auth)
        /\ SignedWith(req[r].auth, Secret)
        /\ req[r].auth.header.alg = "HS256"
        /\ req[r].auth.claims.exp = checkedAt[r]
        /\ pc[r] = "authorized"
        /\ fwd[r] = req[r]

----------------------------------------------------------------------------
(* C3 *)

\* C3: a credential whose exp is before the time of the check is refused with
\* the authentication error, whether or not its signature is correct
ExpiredRejected ==
    \A r \in Requests :
        (/\ Gated(r)
         /\ req[r].auth.parts = 3
         /\ req[r].auth.claims.exp < checkedAt[r])
        => /\ ~validate_auth_token(AuthTokenValidator(Secret), req[r].auth,
                                   checkedAt[r]).ok
           /\ Rejected(r)

\* two expired tokens were refused, one signed with the secret and one not
ExpiredRejectedWitness ==
    \E r, s \in Requests :
        /\ Rejected(r) /\ Rejected(s)
        /\ req[r].auth.header.alg = "HS256" /\ req[s].auth.header.alg = "HS256"
        /\ WellFormed(req[r].auth) /\ WellFormed(req[s].auth)
        /\ req[r].auth.claims.exp < checkedAt[r]
        /\ req[s].auth.claims.exp < checkedAt[s]
        /\ SignedWith(req[r].auth, Secret)
        /\ ~SignedWith(req[s].auth, Secret)

----------------------------------------------------------------------------
(* C4 *)

\* C4: a credential signed with another secret than the server's is refused
\* with the authentication error, whatever its subject and expiration
OtherSecretRejected ==
    \A r \in Requests :
        (Gated(r) /\ SignedWithOtherSecret(req[r].auth))
        => /\ ~validate_auth_token(AuthTokenValidator(Secret), req[r].auth,
                                   checkedAt[r]).ok
           /\ Rejected(r)

\* an unexpired HS256 token with subject, signed with the other secret, was refused
OtherSecretRejectedWitness ==
    \E r \in Requests :
        /\ Rejected(r)
        /\ SignedWithOtherSecret(req[r].auth)
        /\ WellFormed(req[r].auth)
        /\ req[r].auth.header.alg = "HS256"
        /\ req[r].auth.claims.exp > checkedAt[r]

----------------------------------------------------------------------------
(* C5 *)

\* C5: any two rejections are the same response, 401 with the Bearer challenge
\* of the same config, whatever made the gate refuse
RejectionsIdentical ==
    \A r, s \in Requests :
        (Rejected(r) /\ Rejected(s))
        => /\ resp[r] = resp[s]
           /\ resp[r].www_authenticate = <<"Bearer", None, None>>

\* a request without header and one with an expired token were both refused
RejectionsIdenticalWitness ==
    \E r, s \in Requests :
        /\ Rejected(r) /\ Rejected(s)
        /\ req[r].auth = NoAuth
        /\ WellFormed(req[s].auth) /\ SignedWith(req[s].auth, Secret)
        /\ req[s].auth.header.alg = "HS256"
        /\ req[s].auth.claims.exp < checkedAt[s]

----------------------------------------------------------------------------
(* Vocabulary of the handler properties *)

\* storage call op was made for r and failed
Failed(r, op) ==
    \E i \in 1..Len(ops[r]) : ops[r][i][1] = op /\ ops[r][i][2] # "ok"

\* storage call op was made for r
Called(r, op) == \E i \in 1..Len(ops[r]) : ops[r][i][1] = op

\* every storage call made for r succeeded, and the handler returned
Succeeded(r) ==
    /\ pc[r] = "answered"
    /\ Called(r, "store_token")
    /\ \A i \in 1..Len(ops[r]) : ops[r][i][2] = "ok"

GenericError == ErrorInternalServerError("storage layer error")

----------------------------------------------------------------------------
(* C6 *)

\* C6: a request with an explicit id k whose storage calls succeed is answered
\* with the record of id k and of the request's address, symbol and decimals,
\* and the count of the registry is not read for it
ExplicitIdVerbatim ==
    \A r \in Requests :
        (Succeeded(r) /\ treq[r].id # None)
        => /\ resp[r].status = 200
           /\ resp[r].body =
                Json([id |-> treq[r].id[1], address |-> treq[r].address,
                      symbol |-> treq[r].symbol, decimals |-> treq[r].decimals])
           /\ ~Called(r, "get_count")
           /\ counted[r] = -1

\* id 7 was given and returned while the registry held another number of rows
ExplicitIdVerbatimWitness ==
    \E r \in Requests :
        /\ Succeeded(r)
        /\ treq[r].id = Some(7)
        /\ resp[r].body.json.id = 7
        /\ get_count # 7 /\ get_count # 8

----------------------------------------------------------------------------
(* C7 *)

\* C7: a request without id, handled while the registry holds N rows and whose
\* storage calls succeed, is answered with the record of id N, for every N
AutoIdIsCount ==
    \A r \in Requests :
        (Succeeded(r) /\ treq[r].id = None)
        => /\ resp[r].status = 200
           /\ resp[r].body.json.id = counted[r]

----------------------------------------------------------------------------
(* C8 *)

\* C8 as stated: the count read and the store of one request are not atomic
\* with respect to another request of this server: while a request without id
\* has read the count and not yet stored, the handler of a waiting request can
\* start (and read the same count)
CountThenStoreInterruptible ==
    \A r, s \in Requests :
        (r # s /\ pc[r] = "counted" /\ pc[s] = "authorized")
        => ENABLED (\E t \in AddTokenRequest, o \in Outcomes : AccessStorage(s, t, o))

\* C8 amended: handler calls of this server do not overlap: while one request
\* is between its connection borrow and its return, no other request is, so no
\* two requests hold a count they read before the other's store
HandlerCallsSerialized ==
    \A r, s \in Requests :
        (r # s /\ InHandler(r)) => ~InHandler(s)

\* a request without id has read the count while another approved one waits
HandlerCallsSerializedWitness ==
    \E r, s \in Requests :
        /\ r # s
        /\ pc[r] = "counted" /\ treq[r].id = None /\ counted[r] = get_count
        /\ pc[s] = "authorized"

----------------------------------------------------------------------------
(* C9 *)

\* C9: when store_token fails the response is 500 with the body "storage layer
\* error", and the underlying error text is in the warning log only
StoreFailureGeneric ==
    \A r \in Requests :
        Failed(r, "store_token")
        => /\ pc[r] = "answered"
           /\ resp[r].status = 500
           /\ resp[r].body = Text("storage layer error")
           /\ \A e \in StorageErrors : resp[r].body # Text(e)
           /\ \E e \in StorageErrors :
                Warn("failed add token to database in progress request: {}", e) \in vlog

\* a store failed after a successful count read
StoreFailureGenericWitness ==
    \E r \in Requests :
        /\ Failed(r, "store_token")
        /\ Called(r, "get_count")
        /\ resp[r] = GenericError

----------------------------------------------------------------------------
(* C10 *)

\* C10: whichever storage call fails (connection, count read, write), the
\* response is 500 with the body "storage layer error" and no underlying detail
AnyStorageFailureGeneric ==
    \A r \in Requests :
        (Failed(r, "access_storage") \/ Failed(r, "get_count") \/ Failed(r, "store_token"))
        => /\ resp[r].status = 500
           /\ resp[r].body = Text("storage layer error")
           /\ \A e \in StorageErrors : resp[r].body # Text(e)

----------------------------------------------------------------------------
(* C11 *)

\* C11: the id assigned to a request without id is unused: when the handler
\* has taken the id from the count (and nothing else can have written since),
\* the registry holds no row under that id
AutoIdUnused ==
    \A r \in Requests :
        (pc[r] = "counted" /\ treq[r].id = None)
        => ~HasToken(resolve_id(treq[r], counted[r]))

----------------------------------------------------------------------------
(* C12 *)

\* C12: no two rows of the registry have the same id, and no two requests
\* answered 200 for different token definitions were given the same id
IdsUnique ==
    /\ \A i, j \in DOMAIN tokens : TokenAt(i).id = TokenAt(j).id => i = j
    /\ \A r, s \in Requests :
        (/\ r # s
         /\ Succeeded(r) /\ resp[r].status = 200
         /\ Succeeded(s) /\ resp[s].status = 200
         /\ resp[r].body.json # resp[s].body.json)
        => resp[r].body.json.id # resp[s].body.json.id

----------------------------------------------------------------------------
(* C13 *)

\* request r is answered in this step
Answers(r) == pc[r] # "answered" /\ pc'[r] = "answered"

\* C13: a step that answers a request with 200 answers with the record handed
\* to store_token, whose id is a TokenId also when the request had none, and
\* leaves the registry holding that very record under that id
StoredRecordReturned ==
    [][\A r \in Requests :
        (Answers(r) /\ resp'[r].status = 200)
        => /\ ops'[r][Len(ops'[r])] = <<"store_token", "ok">>
           /\ resp'[r].body = Json(Token(resp'[r].body.json.id, treq[r]))
           /\ resp'[r].body.json.id \in 0..(TokenIdSpace - 1)
           /\ (treq[r].id # None => resp'[r].body.json.id = treq[r].id[1])
           /\ resp'[r].body.json.id \in DOMAIN tokens'
           /\ Token(resp'[r].body.json.id, tokens'[resp'[r].body.json.id])
                = resp'[r].body.json]_vars

\* a request without id was answered 200 and the registry holds its record
StoredRecordReturnedWitness ==
    \E r \in Requests :
        /\ Succeeded(r) /\ resp[r].status = 200
        /\ treq[r].id = None
        /\ HasToken(resp[r].body.json.id)
        /\ TokenAt(resp[r].body.json.id) = resp[r].body.json

----------------------------------------------------------------------------
(* C14 *)

\* the number of calls of storage operation op made for r
Calls(r, op) == Cardinality({i \in 1..Len(ops[r]) : ops[r][i][1] = op})

\* C14: no retry: a request makes at most one connection acquisition, one
\* count read and one store, and a failed storage call is its last one
NoRetry ==
    \A r \in Requests :
        /\ Calls(r, "access_storage") <= 1
        /\ Calls(r, "get_count") <= 1
        /\ Calls(r, "store_token") <= 1
        /\ \A i \in 1..Len(ops[r]) : ops[r][i][2] # "ok" => i = Len(ops[r])
        /\ Failed(r, "get_count") => ~Called(r, "store_token")
        /\ (\E i \in 1..Len(ops[r]) : ops[r][i][2] # "ok") => pc[r] = "answered"

\* one request failed at the count read and another at the connection
NoRetryWitness ==
    \E r, s \in Requests :
        /\ Failed(r, "get_count") /\ Len(ops[r]) = 2
        /\ Failed(s, "access_storage") /\ Len(ops[s]) = 1

----------------------------------------------------------------------------
(* C15 *)

\* C15: a connection is borrowed only by a request inside the handler: the
\* borrowed connections never outnumber the requests in the handler, and none
\* is borrowed once every request received has been answered
ConnectionScoped ==
    /\ borrowed \subseteq {r \in Requests : InHandler(r)}
    /\ Cardinality(borrowed) <= Cardinality({r \in Requests : InHandler(r)})
    /\ (\A r \in Requests : pc[r] \in {"idle", "answered"}) => borrowed = {}

\* the handler was left through a failure after the borrow and through a
\* success, and no connection is borrowed
ConnectionScopedWitness ==
    /\ borrowed = {}
    /\ \A r \in Requests : pc[r] = "answered"
    /\ \E r, s \in Requests :
        /\ Failed(r, "store_token") \/ Failed(r, "get_count")
        /\ Succeeded(s) /\ resp[s].status = 200

----------------------------------------------------------------------------
(* C16 *)

\* C16 as stated: every request received is eventually answered, with 401,
\* 500 or 200, and an answer once given is never given again or changed
AnsweredOnce ==
    /\ \A r \in Requests : (pc[r] = "received") ~> (pc[r] = "answered")
    /\ [](\A r \in Requests :
            IF pc[r] = "answered"
            THEN resp[r].status \in {401, 500, 200}
            ELSE resp[r] = NoResponse)
    /\ [][\A r \in Requests :
            pc[r] = "answered" => (pc'[r] = "answered" /\ resp'[r] = resp[r])]_vars

\* C16 amended: every request received is eventually answered, with 401, 404
\* (no route matches the authorized request), 400 or 413 (the extractor refuses
\* the body; 413 when it is over the size limit), 500 or 200, and an answer
\* once given is never given again or changed
AnsweredOnceOrRefused ==
    /\ \A r \in Requests : (pc[r] = "received") ~> (pc[r] = "answered")
    /\ [](\A r \in Requests :
            IF pc[r] = "answered"
            THEN resp[r].status \in {401, 404, 400, 413, 500, 200}
            ELSE resp[r] = NoResponse)
    /\ [][\A r \in Requests :
            pc[r] = "answered" => (pc'[r] = "answered" /\ resp'[r] = resp[r])]_vars

\* every request was answered: one by the extractor with 413 and one by the
\* handler
AnsweredOnceOrRefusedWitness ==
    /\ \A r \in Requests : pc[r] = "answered"
    /\ \E r, s \in Requests :
        /\ resp[r].status = 413 /\ ops[r] = <<>>
        /\ resp[s].status \in {500, 200} /\ ops[s] # <<>>

----------------------------------------------------------------------------
(* C17 *)

\* C17: only a request answered 200 changes the registry: a step that changes
\* the stored rows answers a request with 200, and a step that answers 401 or
\* 500 (or 400, 413, 404) leaves the stored rows as they were
RegistryFrame ==
    [][/\ (tokens' # tokens \/ preloaded' # preloaded)
            => \E r \in Requests : Answers(r) /\ resp'[r].status = 200
       /\ \A r \in Requests :
            (Answers(r) /\ resp'[r].status \in {401, 400, 413, 404, 500})
            => (tokens' = tokens /\ preloaded' = preloaded)]_vars

\* requests were answered 401 and 500 after a failed store, and the registry
\* is one of the initial ones
RegistryFrameWitness ==
    /\ [tokens |-> tokens, preloaded |-> preloaded] \in InitRegistries
    /\ \E r, s \in Requests :
        /\ resp[r].status = 401
        /\ Failed(s, "store_token") /\ resp[s].status = 500

----------------------------------------------------------------------------
(* C18 *)

\* C18: the id answered to a request without id is the count it read modulo
\* 2^16: it lies in 0..65535, and from a count of 65536 on it differs from
\* the count
AutoIdWraps ==
    \A r \in Requests :
        (Succeeded(r) /\ resp[r].status = 200 /\ treq[r].id = None)
        => /\ resp[r].body.json.id = counted[r] % (2 ^ 16)
           /\ resp[r].body.json.id \in 0..65535
           /\ counted[r] >= 65536 => resp[r].body.json.id # counted[r]
           /\ counted[r] < 65536 => resp[r].body.json.id = counted[r]

\* with 65536 rows in the registry a request without id was answered id 0
AutoIdWrapsWitness ==
    \E r \in Requests :
        /\ Succeeded(r) /\ resp[r].status = 200 /\ treq[r].id = None
        /\ counted[r] = 65536
        /\ resp[r].body.json.id = 0

----------------------------------------------------------------------------
(* C19 *)

\* C19: when binding the socket or running the server has failed, the whole
\* process terminates
StartFailureTerminates ==
    server = "panicked" => process = "terminating"

====
